---- MODULE Spec2Model ----
(***************************************************************************)
(* Model of src/transcribe.py: the command-line transcription worker.     *)
(* One run of main() is one behaviour: parse_args, then transcribe_audio  *)
(* step by step (dependency check, file check, accelerator probe, engine  *)
(* construction, the transcribe call, the drain of the lazy segment       *)
(* sequence, join and strip), then the print of the transcript or the     *)
(* top-level exception handler.                                            *)
(*                                                                         *)
(* A text is a sequence of one-character strings; "\n" is the line break.  *)
(* A stream is the sequence of the writes made to it.                      *)
(***************************************************************************)
EXTENDS Integers, Sequences, FiniteSets, TLC

\* Largest number of segments the engine's lazy sequence yields in a run.
MaxSegs == 3

NL == "\n"

\* ---------------------------------------------------------------------
\* Input domains
\* ---------------------------------------------------------------------

\* --model choices.
ModelChoices ==
    {"tiny", "base", "small", "medium", "large-v2", "large-v3", "distil-large-v3"}

\* --language: absent (None) or a code.
LanguageChoices == {"None", "en"}

DeviceChoices == {"cuda", "cpu"}

ComputeTypeChoices == {"int8", "float16", "float32"}

\* segment.text values the engine may yield: empty, leading blank (the
\* usual shape of an engine segment), trailing blank, blank only, and a
\* text with a line break in its interior.
SegmentTexts ==
    { <<>>,
      <<" ", "a">>,
      <<"b", " ">>,
      <<NL>>,
      <<"c", NL, "d">> }

\* (info.language, info.language_probability formatted with :.2f)
Infos == { <<"en", "1.00">>, <<"fr", "0.47">> }

\* format_help() of the parser: several lines, the last one terminated.
HelpText == <<"usage", NL, "options", NL>>

\* ---------------------------------------------------------------------
\* Pure functions
\* ---------------------------------------------------------------------

\* str.strip() with no argument removes leading and trailing whitespace.
IsSpace(c) == c \in {" ", NL, "\t"}

RECURSIVE LStrip(_)
LStrip(s) ==
    IF s = <<>> THEN <<>>
    ELSE IF IsSpace(Head(s)) THEN LStrip(Tail(s))
    ELSE s

RECURSIVE RStrip(_)
RStrip(s) ==
    IF s = <<>> THEN <<>>
    ELSE IF IsSpace(s[Len(s)]) THEN RStrip(SubSeq(s, 1, Len(s) - 1))
    ELSE s

Strip(s) == RStrip(LStrip(s))

\* sep.join(parts)
RECURSIVE Join(_, _)
Join(sep, parts) ==
    IF parts = <<>> THEN <<>>
    ELSE IF Len(parts) = 1 THEN parts[1]
    ELSE parts[1] \o sep \o Join(sep, Tail(parts))

\* Variant: the print is made with end="".
PrintLine_NoTerminator(text) == text

\* print(x): the text followed by the line terminator.
PrintLine(text) == text \o <<NL>>

\* One diagnostic line on standard error.
Msg(level, text, arg) == [level |-> level, text |-> text, arg |-> arg]

\* ---------------------------------------------------------------------
\* State
\* ---------------------------------------------------------------------

VARIABLES
    pc,                  \* position of the run
    whisperInstalled,    \* environment: faster_whisper is importable
    audioExists,         \* environment: os.path.exists(audio_path)
    args,                \* the parsed namespace
    device,              \* local of transcribe_audio
    compute_type,        \* local of transcribe_audio
    cudaProbe,           \* result of torch.cuda.is_available(), if called
    modelCalls,          \* the WhisperModel(...) constructions made
    transcribeCalls,     \* the model.transcribe(...) calls made
    info,                \* metadata returned by transcribe
    segments,            \* segment texts the lazy sequence has yielded
    exhausted,           \* the for loop saw the end of the sequence
    transcription_parts,
    transcription,       \* return value of transcribe_audio
    exc,                 \* the exception in flight: <<>> or <<where>>
    stdout,
    stderr,
    exitStatus

vars == << pc, whisperInstalled, audioExists, args, device, compute_type,
           cudaProbe, modelCalls, transcribeCalls, info, segments, exhausted,
           transcription_parts, transcription, exc, stdout, stderr, exitStatus >>

NoArgs == [model |-> "", language |-> "", device |-> "", compute_type |-> ""]

Init ==
    /\ pc = "parse_args"
    /\ whisperInstalled \in BOOLEAN
    /\ audioExists \in BOOLEAN
    /\ args = NoArgs
    /\ device = ""
    /\ compute_type = ""
    /\ cudaProbe = "not_probed"
    /\ modelCalls = <<>>
    /\ transcribeCalls = <<>>
    /\ info = <<>>
    /\ segments = <<>>
    /\ exhausted = FALSE
    /\ transcription_parts = <<>>
    /\ transcription = <<>>
    /\ exc = <<>>
    /\ stdout = <<>>
    /\ stderr = <<>>
    /\ exitStatus = 0

\* The process ends with the given status: sys.exit(code), or main returning.
Exit(code) ==
    /\ pc' = "exited"
    /\ exitStatus' = code

\* An exception propagates out of transcribe_audio to main's try block.
Raise(where) ==
    /\ pc' = "except"
    /\ exc' = <<where>>

\* ---------------------------------------------------------------------
\* main: argument parsing
\* ---------------------------------------------------------------------

\* parse_args() returns a namespace; main calls transcribe_audio with it.
ParseArgs ==
    /\ pc = "parse_args"
    /\ \E m \in ModelChoices, l \in LanguageChoices,
          d \in DeviceChoices, c \in ComputeTypeChoices :
          /\ args' = [model |-> m, language |-> l, device |-> d, compute_type |-> c]
          /\ device' = d
          /\ compute_type' = c
    /\ pc' = "import_whisper"
    /\ UNCHANGED << whisperInstalled, audioExists, cudaProbe, modelCalls,
                    transcribeCalls, info, segments, exhausted,
                    transcription_parts, transcription, exc, stdout, stderr,
                    exitStatus >>

\* -h / --help: the parser writes its help to standard output and exits 0.
ParseHelp ==
    /\ pc = "parse_args"
    /\ stdout' = Append(stdout, [src |-> "print_help", text |-> HelpText])
    /\ Exit(0)
    /\ UNCHANGED << whisperInstalled, audioExists, args, device, compute_type,
                    cudaProbe, modelCalls, transcribeCalls, info, segments,
                    exhausted, transcription_parts, transcription, exc, stderr >>

\* Missing audio_path, unknown option or a value outside choices: the
\* parser writes usage and the error to standard error and exits 2.
ParseError ==
    /\ pc = "parse_args"
    /\ stderr' = Append(stderr, Msg("usage", "error", <<>>))
    /\ Exit(2)
    /\ UNCHANGED << whisperInstalled, audioExists, args, device, compute_type,
                    cudaProbe, modelCalls, transcribeCalls, info, segments,
                    exhausted, transcription_parts, transcription, exc, stdout >>

\* ---------------------------------------------------------------------
\* transcribe_audio
\* ---------------------------------------------------------------------

\* Variant: the except ImportError branch reports and does not exit.
ImportWhisper_NoExit ==
    /\ pc = "import_whisper"
    /\ \/ /\ whisperInstalled
          /\ UNCHANGED stderr
       \/ /\ ~whisperInstalled
          /\ stderr' = Append(stderr,
                 Msg("ERROR", "faster-whisper not installed", <<>>))
    /\ pc' = "check_file"
    /\ UNCHANGED << whisperInstalled, audioExists, args, device, compute_type,
                    cudaProbe, modelCalls, transcribeCalls, info, segments,
                    exhausted, transcription_parts, transcription, exc, stdout,
                    exitStatus >>

\* Variant: the exit of the dependency check is caught by main's handler
\* (a handler for BaseException).
ImportWhisper_Caught ==
    /\ pc = "import_whisper"
    /\ \/ /\ whisperInstalled
          /\ pc' = "check_file"
          /\ UNCHANGED << stderr, exc >>
       \/ /\ ~whisperInstalled
          /\ stderr' = Append(stderr,
                 Msg("ERROR", "faster-whisper not installed", <<>>))
          /\ Raise("SystemExit")
    /\ UNCHANGED << whisperInstalled, audioExists, args, device, compute_type,
                    cudaProbe, modelCalls, transcribeCalls, info, segments,
                    exhausted, transcription_parts, transcription, stdout,
                    exitStatus >>

\* try: from faster_whisper import WhisperModel / except ImportError
ImportWhisper ==
    /\ pc = "import_whisper"
    /\ \/ /\ whisperInstalled
          /\ pc' = "check_file"
          /\ UNCHANGED << stderr, exitStatus >>
       \/ /\ ~whisperInstalled
          /\ stderr' = Append(stderr,
                 Msg("ERROR", "faster-whisper not installed", <<>>))
          /\ Exit(1)
    /\ UNCHANGED << whisperInstalled, audioExists, args, device, compute_type,
                    cudaProbe, modelCalls, transcribeCalls, info, segments,
                    exhausted, transcription_parts, transcription, exc, stdout >>

\* Variant: the missing file is reported and the run goes on.
CheckFile_NoExit ==
    /\ pc = "check_file"
    /\ \/ /\ audioExists
          /\ UNCHANGED stderr
       \/ /\ ~audioExists
          /\ stderr' = Append(stderr,
                 Msg("ERROR", "Audio file not found", <<>>))
    /\ pc' = "import_torch"
    /\ UNCHANGED << whisperInstalled, audioExists, args, device, compute_type,
                    cudaProbe, modelCalls, transcribeCalls, info, segments,
                    exhausted, transcription_parts, transcription, exc, stdout,
                    exitStatus >>

\* if not os.path.exists(audio_path)
CheckFile ==
    /\ pc = "check_file"
    /\ \/ /\ audioExists
          /\ pc' = "import_torch"
          /\ UNCHANGED << stderr, exitStatus >>
       \/ /\ ~audioExists
          /\ stderr' = Append(stderr,
                 Msg("ERROR", "Audio file not found", <<>>))
          /\ Exit(1)
    /\ UNCHANGED << whisperInstalled, audioExists, args, device, compute_type,
                    cudaProbe, modelCalls, transcribeCalls, info, segments,
                    exhausted, transcription_parts, transcription, exc, stdout >>

\* import torch: succeeds, or raises (torch is a separate package).
ImportTorch ==
    /\ pc = "import_torch"
    /\ \/ /\ pc' = "check_cuda"
          /\ UNCHANGED exc
       \/ Raise("import torch")
    /\ UNCHANGED << whisperInstalled, audioExists, args, device, compute_type,
                    cudaProbe, modelCalls, transcribeCalls, info, segments,
                    exhausted, transcription_parts, transcription, stdout,
                    stderr, exitStatus >>

\* Variant: the fallback switches the device and keeps the requested
\* compute_type.
CheckCuda_KeepComputeType ==
    /\ pc = "check_cuda"
    /\ \/ /\ device # "cuda"
          /\ UNCHANGED << cudaProbe, device, stderr >>
       \/ /\ device = "cuda"
          /\ cudaProbe' = "available"
          /\ UNCHANGED << device, stderr >>
       \/ /\ device = "cuda"
          /\ cudaProbe' = "unavailable"
          /\ stderr' = Append(stderr,
                 Msg("WARNING", "CUDA not available, falling back to CPU", <<>>))
          /\ device' = "cpu"
    /\ pc' = "log_config"
    /\ UNCHANGED << whisperInstalled, audioExists, args, compute_type,
                    modelCalls, transcribeCalls, info, segments, exhausted,
                    transcription_parts, transcription, exc, stdout,
                    exitStatus >>

\* if device == "cuda" and not torch.cuda.is_available(): the probe is
\* called only when device is "cuda" (short-circuit and).
CheckCuda ==
    /\ pc = "check_cuda"
    /\ \/ /\ device # "cuda"
          /\ UNCHANGED << cudaProbe, device, compute_type, stderr >>
       \/ /\ device = "cuda"
          /\ cudaProbe' = "available"
          /\ UNCHANGED << device, compute_type, stderr >>
       \/ /\ device = "cuda"
          /\ cudaProbe' = "unavailable"
          /\ stderr' = Append(stderr,
                 Msg("WARNING", "CUDA not available, falling back to CPU", <<>>))
          /\ device' = "cpu"
          /\ compute_type' = "int8"
    /\ pc' = "log_config"
    /\ UNCHANGED << whisperInstalled, audioExists, args, modelCalls,
                    transcribeCalls, info, segments, exhausted,
                    transcription_parts, transcription, exc, stdout,
                    exitStatus >>

\* Variant: the print lacks file=sys.stderr.
LogConfig_ToStdout ==
    /\ pc = "log_config"
    /\ stdout' = Append(stdout,
           [src |-> "log_config", text |-> PrintLine(<<"INFO: Loading model">>)])
    /\ pc' = "construct"
    /\ UNCHANGED << whisperInstalled, audioExists, args, device, compute_type,
                    cudaProbe, modelCalls, transcribeCalls, info, segments,
                    exhausted, transcription_parts, transcription, exc, stderr,
                    exitStatus >>

\* print(f"INFO: Loading model ...", file=sys.stderr)
LogConfig ==
    /\ pc = "log_config"
    /\ stderr' = Append(stderr,
           Msg("INFO", "Loading model", <<args.model, device, compute_type>>))
    /\ pc' = "construct"
    /\ UNCHANGED << whisperInstalled, audioExists, args, device, compute_type,
                    cudaProbe, modelCalls, transcribeCalls, info, segments,
                    exhausted, transcription_parts, transcription, exc, stdout,
                    exitStatus >>

\* model = WhisperModel(model_size, device=..., compute_type=..., ...)
ConstructModel ==
    /\ pc = "construct"
    /\ modelCalls' = Append(modelCalls,
           [model |-> args.model, device |-> device, compute_type |-> compute_type])
    /\ \/ /\ pc' = "transcribe"
          /\ UNCHANGED exc
       \/ Raise("WhisperModel")
    /\ UNCHANGED << whisperInstalled, audioExists, args, device, compute_type,
                    cudaProbe, transcribeCalls, info, segments, exhausted,
                    transcription_parts, transcription, stdout, stderr,
                    exitStatus >>

\* segments, info = model.transcribe(audio_path, language=language, ...)
Transcribe ==
    /\ pc = "transcribe"
    /\ transcribeCalls' = Append(transcribeCalls, [language |-> args.language])
    /\ \/ /\ \E i \in Infos : info' = i
          /\ pc' = "log_language"
          /\ UNCHANGED exc
       \/ /\ Raise("transcribe")
          /\ UNCHANGED info
    /\ UNCHANGED << whisperInstalled, audioExists, args, device, compute_type,
                    cudaProbe, modelCalls, segments, exhausted,
                    transcription_parts, transcription, stdout, stderr,
                    exitStatus >>

\* Variant: the line is written only when the language was auto-detected.
LogLanguage_OnlyAuto ==
    /\ pc = "log_language"
    /\ stderr' = IF args.language = "None"
                 THEN Append(stderr, Msg("INFO", "Detected language", info))
                 ELSE stderr
    /\ pc' = "drain"
    /\ UNCHANGED << whisperInstalled, audioExists, args, device, compute_type,
                    cudaProbe, modelCalls, transcribeCalls, info, segments,
                    exhausted, transcription_parts, transcription, exc, stdout,
                    exitStatus >>

\* print(f"INFO: Detected language: ...", file=sys.stderr)
LogLanguage ==
    /\ pc = "log_language"
    /\ stderr' = Append(stderr, Msg("INFO", "Detected language", info))
    /\ pc' = "drain"
    /\ UNCHANGED << whisperInstalled, audioExists, args, device, compute_type,
                    cudaProbe, modelCalls, transcribeCalls, info, segments,
                    exhausted, transcription_parts, transcription, exc, stdout,
                    exitStatus >>

\* Variant: a segment whose text trims to empty is skipped.
AppendPart_SkipEmpty(parts, text) ==
    IF Strip(text) = <<>> THEN parts ELSE Append(parts, Strip(text))

\* transcription_parts.append(segment.text.strip())
AppendPart(parts, text) == Append(parts, Strip(text))

\* for segment in segments: transcription_parts.append(segment.text.strip())
\* One step of the loop: the lazy sequence yields its next segment, ends,
\* or raises.
NextSegment ==
    /\ pc = "drain"
    /\ \/ /\ Len(segments) < MaxSegs
          /\ \E t \in SegmentTexts :
                /\ segments' = Append(segments, t)
                /\ transcription_parts' = AppendPart(transcription_parts, t)
          /\ UNCHANGED << pc, exhausted, exc >>
       \/ /\ exhausted' = TRUE
          /\ pc' = "join"
          /\ UNCHANGED << segments, transcription_parts, exc >>
       \/ /\ Raise("segments")
          /\ UNCHANGED << segments, transcription_parts, exhausted >>
    /\ UNCHANGED << whisperInstalled, audioExists, args, device, compute_type,
                    cudaProbe, modelCalls, transcribeCalls, info,
                    transcription, stdout, stderr, exitStatus >>

\* Variant: the joined text is not stripped.
full_transcription_NoStrip == Join(<<" ">>, transcription_parts)

\* full_transcription = " ".join(transcription_parts).strip()
full_transcription == Strip(Join(<<" ">>, transcription_parts))

\* if not full_transcription: warn, return "" / return full_transcription
JoinParts ==
    /\ pc = "join"
    /\ \/ /\ full_transcription = <<>>
          /\ stderr' = Append(stderr,
                 Msg("WARNING", "No speech detected in audio", <<>>))
          /\ transcription' = <<>>
       \/ /\ full_transcription # <<>>
          /\ transcription' = full_transcription
          /\ UNCHANGED stderr
    /\ pc' = "print"
    /\ UNCHANGED << whisperInstalled, audioExists, args, device, compute_type,
                    cudaProbe, modelCalls, transcribeCalls, info, segments,
                    exhausted, transcription_parts, exc, stdout, exitStatus >>

\* ---------------------------------------------------------------------
\* main: result delivery and the top-level handler
\* ---------------------------------------------------------------------

\* print(transcription); main returns and the process exits with 0.
PrintTranscription ==
    /\ pc = "print"
    /\ stdout' = Append(stdout,
           [src |-> "print_transcription", text |-> PrintLine(transcription)])
    /\ Exit(0)
    /\ UNCHANGED << whisperInstalled, audioExists, args, device, compute_type,
                    cudaProbe, modelCalls, transcribeCalls, info, segments,
                    exhausted, transcription_parts, transcription, exc, stderr >>

\* Variant: the handler reports and lacks sys.exit(1); main returns.
HandleException_NoExit ==
    /\ pc = "except"
    /\ stderr' = Append(stderr, Msg("ERROR", "exception", exc))
    /\ Exit(0)
    /\ UNCHANGED << whisperInstalled, audioExists, args, device, compute_type,
                    cudaProbe, modelCalls, transcribeCalls, info, segments,
                    exhausted, transcription_parts, transcription, exc, stdout >>

\* except Exception as e: print(f"ERROR: {str(e)}", file=sys.stderr); sys.exit(1)
HandleException ==
    /\ pc = "except"
    /\ stderr' = Append(stderr, Msg("ERROR", "exception", exc))
    /\ Exit(1)
    /\ UNCHANGED << whisperInstalled, audioExists, args, device, compute_type,
                    cudaProbe, modelCalls, transcribeCalls, info, segments,
                    exhausted, transcription_parts, transcription, exc, stdout >>

Next ==
    \/ ParseArgs
    \/ ParseHelp
    \/ ParseError
    \/ ImportWhisper
    \/ CheckFile
    \/ ImportTorch
    \/ CheckCuda
    \/ LogConfig
    \/ ConstructModel
    \/ Transcribe
    \/ LogLanguage
    \/ NextSegment
    \/ JoinParts
    \/ PrintTranscription
    \/ HandleException

Spec == Init /\ [][Next]_vars

\* ---------------------------------------------------------------------
\* Observations used by the properties
\* ---------------------------------------------------------------------

Terminated == pc = "exited"

\* parse_args returned a namespace.
Parsed == args # NoArgs

HasMsg(level, text) ==
    \E i \in DOMAIN stderr : stderr[i].level = level /\ stderr[i].text = text

CountLevel(level) ==
    Cardinality({ i \in DOMAIN stderr : stderr[i].level = level })

\* The characters standard output holds: the writes, concatenated.
RECURSIVE Concat(_)
Concat(writes) ==
    IF writes = <<>> THEN <<>>
    ELSE Head(writes).text \o Concat(Tail(writes))

StdoutBytes == Concat(stdout)

\* Trimming and joining stated on positions, not by recursion on the ends.
Min(S) == CHOOSE x \in S : \A y \in S : x <= y
Max(S) == CHOOSE x \in S : \A y \in S : x >= y

Trimmed(s) ==
    LET solid == { i \in DOMAIN s : s[i] \notin {" ", NL, "\t"} }
    IN  IF solid = {} THEN <<>> ELSE SubSeq(s, Min(solid), Max(solid))

RECURSIVE JoinedBySpace(_)
JoinedBySpace(texts) ==
    IF texts = <<>> THEN <<>>
    ELSE IF Len(texts) = 1 THEN texts[1]
    ELSE JoinedBySpace(SubSeq(texts, 1, Len(texts) - 1))
             \o <<" ">> \o texts[Len(texts)]

\* trim(join(" ", [trim(s.text) for each segment s in order]))
FinalTranscript(segs) ==
    Trimmed(JoinedBySpace([ i \in DOMAIN segs |-> Trimmed(segs[i]) ]))

LineBreaks(s) == Cardinality({ i \in DOMAIN s : s[i] = NL })

\* Standard output holds exactly one write, the print of the transcript
\* made after the segment sequence was drained.
OnlyTranscriptPrinted ==
    /\ Len(stdout) = 1
    /\ stdout[1].src = "print_transcription"
    /\ stdout[1].text = FinalTranscript(segments) \o <<NL>>
    /\ exhausted
    /\ Terminated

\* ---------------------------------------------------------------------
\* C1
\* ---------------------------------------------------------------------

\* C1 as stated: in every execution of main(), whatever the outcome, the
\* only thing ever written to standard output is the Final Transcript, by
\* a single print made after the segments were drained; no diagnostic
\* message is written to standard output.
C1_Original ==
    stdout # <<>> => OnlyTranscriptPrinted

\* C1 amended: the same, in every execution in which parse_args returned
\* the parsed arguments (the help option makes the parser itself write to
\* standard output); every diagnostic line is on standard error.
C1_StdoutTranscriptOnly ==
    Parsed =>
        /\ stdout # <<>> => OnlyTranscriptPrinted
        /\ \A i \in DOMAIN stderr : stderr[i].level \in {"INFO", "WARNING", "ERROR"}

\* C1 witness: a finished run with a fallback warning, info lines and a
\* non-empty transcript on standard output.
C1_Witness ==
    /\ Terminated
    /\ Parsed
    /\ OnlyTranscriptPrinted
    /\ stdout[1].text # <<NL>>
    /\ CountLevel("WARNING") = 1
    /\ CountLevel("INFO") = 2

\* ---------------------------------------------------------------------
\* C2
\* ---------------------------------------------------------------------

\* C2: an exception raised inside transcribe_audio after the precondition
\* checks (import of the probe, engine construction, transcribe, the
\* drain) is caught by main's handler: one ERROR line carrying its message
\* is the last line on standard error, nothing is written to standard
\* output, the exit status is non-zero, and neither the engine
\* construction nor transcribe is made a second time.
C2_ExceptionHandled ==
    exc # <<>> =>
        /\ stdout = <<>>
        /\ Len(modelCalls) <= 1
        /\ Len(transcribeCalls) <= 1
        /\ pc \in {"except", "exited"}
        /\ Terminated =>
              /\ exitStatus # 0
              /\ CountLevel("ERROR") = 1
              /\ stderr[Len(stderr)] = Msg("ERROR", "exception", exc)

\* C2 witness: the drain raised after two segments were consumed, and the
\* run has ended.
C2_Witness ==
    /\ Terminated
    /\ exc = <<"segments">>
    /\ Len(segments) = 2
    /\ FinalTranscript(segments) # <<>>
    /\ exitStatus = 1

\* ---------------------------------------------------------------------
\* C3
\* ---------------------------------------------------------------------

\* C3: with the inference library importable and audio_path not an
\* existing file, for every parsed choice of options: the accelerator is
\* never probed, the engine never constructed, transcribe never called,
\* nothing is written to standard output, and the run ends with the single
\* "Audio file not found" ERROR on standard error and a non-zero status.
C3_MissingFile ==
    (Parsed /\ whisperInstalled /\ ~audioExists) =>
        /\ pc \in {"import_whisper", "check_file", "exited"}
        /\ cudaProbe = "not_probed"
        /\ modelCalls = <<>>
        /\ transcribeCalls = <<>>
        /\ stdout = <<>>
        /\ Terminated =>
              /\ exitStatus # 0
              /\ stderr = << Msg("ERROR", "Audio file not found", <<>>) >>

\* C3 witness: the run ended on the missing file, with non-default options.
C3_Witness ==
    /\ Terminated
    /\ whisperInstalled
    /\ ~audioExists
    /\ args = [model |-> "large-v3", language |-> "en",
               device |-> "cpu", compute_type |-> "float32"]
    /\ HasMsg("ERROR", "Audio file not found")

\* ---------------------------------------------------------------------
\* C4
\* ---------------------------------------------------------------------

Fallback == args.device = "cuda" /\ cudaProbe = "unavailable"

\* The (device, compute_type) the engine is to receive.
EffectiveConfig ==
    IF Fallback THEN <<"cpu", "int8">> ELSE <<args.device, args.compute_type>>

\* C4: the engine constructor receives ("cpu", "int8") when "cuda" was
\* requested and the probe reports it unavailable, whatever compute_type
\* was requested, and the requested pair otherwise; the fallback WARNING
\* is on standard error exactly in the first case; after a fallback the
\* run goes on, and its exit status is 0 unless a later step raised.
C4_EngineConfig ==
    /\ \A i \in DOMAIN modelCalls :
          /\ << modelCalls[i].device, modelCalls[i].compute_type >> = EffectiveConfig
          /\ modelCalls[i].model = args.model
    /\ pc \notin {"parse_args", "import_whisper", "check_file",
                  "import_torch", "check_cuda"} =>
          (HasMsg("WARNING", "CUDA not available, falling back to CPU") <=> Fallback)
    /\ (Fallback /\ Terminated) =>
          /\ modelCalls # <<>>
          /\ exitStatus = 0 <=> exc = <<>>
          /\ exitStatus = 0 <=> OnlyTranscriptPrinted

\* C4 witness: float32 on cuda was requested, the probe said unavailable,
\* the engine was constructed and the run ended with status 0.
C4_Witness ==
    /\ Terminated
    /\ Fallback
    /\ args.compute_type = "float32"
    /\ Len(modelCalls) = 1
    /\ modelCalls[1].device = "cpu"
    /\ modelCalls[1].compute_type = "int8"
    /\ exitStatus = 0

\* ---------------------------------------------------------------------
\* C5
\* ---------------------------------------------------------------------

\* The engine call succeeded and yielded no speech.
NoSpeech ==
    /\ exhausted
    /\ \A i \in DOMAIN segments : Trimmed(segments[i]) = <<>>

C6_FinalTranscript ==
    /\ Len(transcription_parts) = Len(segments)
    /\ \A i \in DOMAIN segments : transcription_parts[i] = Trimmed(segments[i])
    /\ pc \in {"join", "print"} => exhausted
    /\ ~exhausted => transcription = <<>>
    /\ (pc = "print" \/ (Terminated /\ exhausted)) =>
          transcription = FinalTranscript(segments)

\* C6 witness: three segments with a blank one in the middle were drained;
\* the transcript keeps both separators around the empty part.
C6_Witness ==
    /\ Terminated
    /\ segments = << <<" ", "a">>, <<NL>>, <<"b", " ">> >>
    /\ transcription = <<"a", " ", " ", "b">>
    /\ stdout # <<>>

\* ---------------------------------------------------------------------
\* C7
\* ---------------------------------------------------------------------

SuccessfulTranscription == Parsed /\ Terminated /\ exitStatus = 0

RECURSIVE InteriorBreaks(_)
InteriorBreaks(segs) ==
    IF segs = <<>> THEN 0
    ELSE LineBreaks(Trimmed(Head(segs))) + InteriorBreaks(Tail(segs))

\* C7 as stated: on every successful invocation standard output is one
\* line (or empty): it holds no line break other than the terminator of
\* that line, whatever segment texts the engine returned.
C7_Original ==
    SuccessfulTranscription =>
        \/ StdoutBytes = <<>>
        \/ /\ StdoutBytes[Len(StdoutBytes)] = NL
           /\ LineBreaks(StdoutBytes) = 1

\* C7 amended: on every successful transcription standard output is the
\* Final Transcript followed by one line terminator; its line breaks are
\* that terminator and the line breaks in the interior of the trimmed
\* segment texts, which are written unchanged; so it is a single line
\* exactly when no segment text has a line break in its interior.
C7_TranscriptThenTerminator ==
    SuccessfulTranscription =>
        /\ StdoutBytes = FinalTranscript(segments) \o <<NL>>
        /\ LineBreaks(StdoutBytes) = 1 + InteriorBreaks(segments)
        /\ LineBreaks(StdoutBytes) = 1 <=>
              \A i \in DOMAIN segments : LineBreaks(Trimmed(segments[i])) = 0

\* C7 witness: a segment text with an interior line break was printed.
C7_Witness ==
    /\ SuccessfulTranscription
    /\ segments = << <<"b", " ">>, <<"c", NL, "d">> >>
    /\ StdoutBytes = <<"b", " ", "c", NL, "d", NL>>

\* ---------------------------------------------------------------------
\* C8
\* ---------------------------------------------------------------------

\* C8: the checks run in the order library, file, accelerator, and the
\* first fatal one ends the run: with the library missing, the file check,
\* the probe, the construction and transcribe never happen and only the
\* dependency error is reported, even if the file is missing too; with the
\* file missing, the probe, the construction and transcribe never happen;
\* the engine is constructed only past the three checks and transcribe is
\* called only with the engine constructed.
C8_CheckOrder ==
    /\ (Parsed /\ ~whisperInstalled) =>
          /\ pc \in {"import_whisper", "exited"}
          /\ ~HasMsg("ERROR", "Audio file not found")
          /\ cudaProbe = "not_probed"
          /\ modelCalls = <<>> /\ transcribeCalls = <<>>
          /\ Terminated =>
                /\ stderr = << Msg("ERROR", "faster-whisper not installed", <<>>) >>
                /\ exitStatus # 0
    /\ (Parsed /\ ~audioExists) =>
          /\ cudaProbe = "not_probed"
          /\ modelCalls = <<>> /\ transcribeCalls = <<>>
    /\ cudaProbe # "not_probed" => (whisperInstalled /\ audioExists)
    /\ modelCalls # <<>> =>
          /\ whisperInstalled /\ audioExists
          /\ args.device = "cuda" => cudaProbe # "not_probed"
          /\ HasMsg("INFO", "Loading model")
    /\ transcribeCalls # <<>> => Len(modelCalls) = 1

\* C8 witness: library and file both missing; the run ended with the
\* dependency error alone.
C8_Witness ==
    /\ Terminated
    /\ Parsed
    /\ ~whisperInstalled
    /\ ~audioExists
    /\ Len(stderr) = 1
    /\ stderr[1].text = "faster-whisper not installed"

\* ---------------------------------------------------------------------
\* C9
\* ---------------------------------------------------------------------

LanguageLines ==
    { i \in DOMAIN stderr : stderr[i] = Msg("INFO", "Detected language", info) }

\* C9: once transcribe has returned, the "Detected language" line, with
\* the engine's language and confidence, is written to standard error,
\* with --language given or absent, before the first segment is consumed:
\* it is there when the drain raises, when the transcript is empty, ahead
\* of the "No speech detected" warning and ahead of the print of the
\* transcript.
C9_DetectedLanguage ==
    /\ (info # <<>> /\ pc # "log_language") => Cardinality(LanguageLines) = 1
    /\ (segments # <<>> \/ exhausted) => LanguageLines # {}
    /\ exc = <<"segments">> => LanguageLines # {}
    /\ (Parsed /\ stdout # <<>>) => LanguageLines # {}
    /\ \A j \in DOMAIN stderr :
          stderr[j].text = "No speech detected in audio" =>
              \E i \in LanguageLines : i < j

\* C9 witness: --language was given, the drain raised before any segment,
\* and the line is on standard error.
C9_Witness ==
    /\ Terminated
    /\ args.language = "en"
    /\ exc = <<"segments">>
    /\ segments = <<>>
    /\ LanguageLines # {}

\* ---------------------------------------------------------------------
\* C10
\* ---------------------------------------------------------------------

\* C10: in every finished run whose arguments were parsed, the exit status
\* is 0 exactly when one write to standard output was made (the
\* transcript), and non-zero exactly when none was made and exactly one
\* ERROR line is on standard error; the exits of the dependency check and
\* of the file check do not pass through main's handler.
C10_ExitStatus ==
    (Parsed /\ Terminated) =>
        /\ exitStatus = 0 <=>
              (Len(stdout) = 1 /\ stdout[1].src = "print_transcription")
        /\ exitStatus # 0 <=> (stdout = <<>> /\ CountLevel("ERROR") = 1)
        /\ (~whisperInstalled \/ ~audioExists) =>
              (exc = <<>> /\ CountLevel("ERROR") = 1)

\* C10 witness: the file check ended the run: one ERROR line, status 1,
\* no exception handled.
C10_Witness ==
    /\ Terminated
    /\ Parsed
    /\ whisperInstalled
    /\ ~audioExists
    /\ exc = <<>>
    /\ CountLevel("ERROR") = 1
    /\ exitStatus = 1
    /\ stdout = <<>>

====
